---- MODULE Spec2Model ----
(***************************************************************************)
(* Model of the marker-tracking pipeline (tracker.py, process_video) and   *)
(* of the upload handler that runs it (app.py, upload).                    *)
(*                                                                         *)
(* A frame is represented by what find_centroids returns for its two       *)
(* masks: the list of pink centroids and the list of green centroids, in   *)
(* the order the contours were found.  Vectors and points are pairs        *)
(* <<x, y>> of integers; None is the empty tuple.                          *)
(***************************************************************************)
EXTENDS Integers, Sequences, FiniteSets, TLC

VARIABLES
    upc,               \* position of the upload handler
    meta,              \* the job's meta.json
    caller,            \* who called process_video: "none", "upload", "direct"
    pc,                \* position inside process_video
    out_csv,           \* output_csv_path as a string, "" for None
    csvfile,           \* "none", "open", "closed"
    csv_rows,          \* rows written to the CSV file, header first
    cap,               \* input stream: "unopened", "open", "released"
    video_len,         \* number of frames the opened source holds
    out,               \* raw writer: "unopened", "open", "released"
    raw,               \* frames written to the raw output, by source number
    prev_pink_vec,
    prev_green_vec,
    frame_idx,
    frames_with_angle,
    pink_pts,          \* centroids of the frame last read
    green_pts,
    pink_vec,          \* vectors computed for the frame last read, or None
    green_vec,
    ang,               \* angle computed for the frame last read, or None
    angle_display,     \* overlay text of the frame last read
    lines,             \* segments drawn on the frame last read
    same_input,        \* history: the frame last read repeats the centroid
                       \* lists of the frame before it
    ffmpeg_rc,         \* -1 before the transcode ran, else its return code
    exc,               \* message of the exception process_video raised, or ""
    result             \* dictionary process_video returned, or None

vars == <<upc, meta, caller, pc, out_csv, csvfile, csv_rows, cap, video_len,
          out, raw, prev_pink_vec, prev_green_vec, frame_idx,
          frames_with_angle, pink_pts, green_pts, pink_vec, green_vec, ang,
          angle_display, lines, same_input, ffmpeg_rc, exc, result>>

job_vars == <<upc, meta, caller>>
frame_vars == <<prev_pink_vec, prev_green_vec, frame_idx, frames_with_angle,
                pink_pts, green_pts, pink_vec, green_vec, ang, angle_display,
                lines, same_input>>

\* Longest video the model reads.
MaxFrames == 3

None == <<>>

\* Three pixel positions; their differences give horizontal, vertical and
\* diagonal segments.
A == <<0, 0>>
B == <<1, 0>>
C == <<0, 1>>

\* The centroid lists a mask can yield: none, one, three blobs, a pair at
\* the same pixel, a pair level in y (found right-to-left), a vertical pair
\* and a diagonal pair (found bottom-first).
CentroidLists ==
    { <<>>, <<A>>, <<A, B, C>>, <<A, A>>, <<B, A>>, <<A, C>>, <<C, B>> }

----------------------------------------------------------------------------
\* Vector arithmetic (numpy arrays of two integers).

Sub(p, q) == <<p[1] - q[1], p[2] - q[2]>>
Neg(v) == <<0 - v[1], 0 - v[2]>>
Dot(v, w) == v[1] * w[1] + v[2] * w[2]
Norm2(v) == Dot(v, v)

Sign(n) == IF n < 0 THEN 0 - 1 ELSE IF n > 0 THEN 1 ELSE 0

RECURSIVE GCD(_, _)
GCD(a, b) == IF b = 0 THEN a ELSE GCD(b, a % b)

NaN == <<"nan">>

\* arccos in degrees of the cosine s * sqrt(num / den) (num / den in lowest
\* terms): the exact value where it is a whole number of degrees, the
\* cosine itself otherwise.
ArccosDegrees(s, num, den) ==
    CASE num = 0            -> <<"deg", 90>>
      [] num = den          -> <<"deg", IF s > 0 THEN 0 ELSE 180>>
      [] 2 * num = den      -> <<"deg", IF s > 0 THEN 45 ELSE 135>>
      [] 4 * num = den      -> <<"deg", IF s > 0 THEN 60 ELSE 120>>
      [] 4 * num = 3 * den  -> <<"deg", IF s > 0 THEN 30 ELSE 150>>
      [] OTHER              -> <<"acos", s, num, den>>

\* angle_between: NaN when either vector has norm 0, else the angle of the
\* normalised dot product.  In exact arithmetic |dot| <= |v1| |v2|, so the
\* clip to [-1, 1] changes nothing.
angle_between(v1, v2) ==
    IF Norm2(v1) = 0 \/ Norm2(v2) = 0
    THEN NaN
    ELSE LET d  == Dot(v1, v2)
             nn == Norm2(v1) * Norm2(v2)
             g  == GCD(d * d, nn)
         IN  ArccosDegrees(Sign(d), (d * d) \div g, nn \div g)

force_downward(vec) == IF vec[2] > 0 THEN vec ELSE Neg(vec)

force_leftward_LeftOrVertical(vec) == IF vec[1] <= 0 THEN vec ELSE Neg(vec)

force_leftward(vec) == IF vec[1] < 0 THEN vec ELSE Neg(vec)

\* sorted(pts, key=lambda p: p[1]): stable insertion sort on y.
RECURSIVE InsertByY(_, _)
InsertByY(p, s) ==
    IF s = <<>> THEN <<p>>
    ELSE IF s[1][2] <= p[2]
         THEN <<s[1]>> \o InsertByY(p, Tail(s))
         ELSE <<p>> \o s

RECURSIVE SortedByY(_)
SortedByY(pts) ==
    IF pts = <<>> THEN <<>>
    ELSE InsertByY(pts[Len(pts)], SortedByY(SubSeq(pts, 1, Len(pts) - 1)))

\* Lines 116-122: p2 - p1 of the sorted pair, forced downward, then leftward.
Oriented(pts) ==
    LET s == SortedByY(pts)
    IN  force_leftward(force_downward(Sub(s[2], s[1])))

Continuity_FlipAligned(vec, prev) ==
    IF prev # None /\ Dot(vec, prev) > 0 THEN Neg(vec) ELSE vec

\* Lines 124-127: flip the vector when it points against the previous one.
Continuity(vec, prev) ==
    IF prev # None /\ Dot(vec, prev) < 0 THEN Neg(vec) ELSE vec

BothPairs_GreenAtLeastTwo(pp, gp) == Len(pp) = 2 /\ Len(gp) >= 2

\* Line 112: the frame is measured only when both colours have two centroids.
BothPairs(pp, gp) == Len(pp) = 2 /\ Len(gp) = 2

NA == <<"N/A">>
\* f"{ang:.2f}°"
Formatted(a) == <<"%.2f", a>>

Header == <<"Frame", "Angle (degrees)">>

writerow_SkipNaN(rows, row) ==
    IF out_csv # "" /\ row[2] # NaN THEN Append(rows, row) ELSE rows

\* Lines 139-140: the row is written when a CSV was asked for.
writerow(rows, row) == IF out_csv # "" THEN Append(rows, row) ELSE rows

draw_lines_PinkOnly(p, g) == << <<p[1], p[2]>> >>

\* Lines 136-137: one segment per colour, between the sorted centroids.
draw_lines(p, g) == << <<p[1], p[2]>>, <<g[1], g[2]>> >>

out_write_FirstOnly(frames, n) == IF n = 1 THEN Append(frames, n) ELSE frames

\* Line 145: the frame goes to the raw output.
out_write(frames, n) == Append(frames, n)

keep_prev_ResetOnMiss(prev) == None

\* A frame that is not measured leaves the previous vector as it was.
keep_prev(prev) == prev

----------------------------------------------------------------------------
\* The job's meta.json; "" stands for a key that is not set.
NoMeta == [status |-> "", processed_path |-> "", csv_path |-> "", error |-> ""]

Init ==
    /\ upc = "idle"
    /\ meta = NoMeta
    /\ caller = "none"
    /\ pc = "idle"
    /\ out_csv = ""
    /\ csvfile = "none"
    /\ csv_rows = <<>>
    /\ cap = "unopened"
    /\ video_len = 0
    /\ out = "unopened"
    /\ raw = <<>>
    /\ prev_pink_vec = None
    /\ prev_green_vec = None
    /\ frame_idx = 0
    /\ frames_with_angle = 0
    /\ pink_pts = <<>>
    /\ green_pts = <<>>
    /\ pink_vec = None
    /\ green_vec = None
    /\ ang = None
    /\ angle_display = None
    /\ lines = <<>>
    /\ same_input = FALSE
    /\ ffmpeg_rc = 0 - 1
    /\ exc = ""
    /\ result = None

\* process_video, lines 53-69: the optional CSV is opened and gets its header
\* before anything else is opened.
Enter(csv_path) ==
    /\ pc = "idle"
    /\ pc' = "open_input"
    /\ out_csv' = csv_path
    /\ csvfile' = IF csv_path # "" THEN "open" ELSE "none"
    /\ csv_rows' = IF csv_path # "" THEN <<Header>> ELSE <<>>
    /\ UNCHANGED <<cap, video_len, out, raw, ffmpeg_rc, exc, result>>
    /\ UNCHANGED frame_vars

\* upload, lines 36-37: a file name that is no video is refused.
UploadReject ==
    /\ upc = "idle" /\ caller = "none"
    /\ upc' = "rejected"
    /\ UNCHANGED <<meta, caller, pc, out_csv, csvfile, csv_rows, cap,
                   video_len, out, raw, ffmpeg_rc, exc, result>>
    /\ UNCHANGED frame_vars

\* upload, lines 39-70: the job is recorded, marked "processing", and
\* process_video is called with a CSV path.
UploadAccept ==
    /\ upc = "idle" /\ caller = "none"
    /\ upc' = "processing"
    /\ caller' = "upload"
    /\ meta' = [NoMeta EXCEPT !.status = "processing"]
    /\ Enter("angles.csv")

\* process_video called by other code, with or without a CSV path.
DirectCall ==
    /\ upc = "idle" /\ caller = "none"
    /\ caller' = "direct"
    /\ UNCHANGED <<upc, meta>>
    /\ \E csv_path \in {"", "angles.csv"} : Enter(csv_path)

\* Lines 71-77: the input is opened; a source that does not open raises.
OpenInput ==
    /\ pc = "open_input"
    /\ \/ /\ \E n \in 0..MaxFrames : video_len' = n
          /\ cap' = "open"
          /\ pc' = "open_writer"
          /\ exc' = exc
       \/ /\ exc' = "Cannot open input video"
          /\ pc' = "raised"
          /\ UNCHANGED <<cap, video_len>>
    /\ UNCHANGED <<out_csv, csvfile, csv_rows, out, raw, ffmpeg_rc, result>>
    /\ UNCHANGED job_vars
    /\ UNCHANGED frame_vars

\* Lines 79-89: the raw writer is opened; if it does not open the input is
\* released and the call raises.
OpenWriter ==
    /\ pc = "open_writer"
    /\ \/ /\ out' = "open"
          /\ pc' = "loop"
          /\ UNCHANGED <<cap, exc>>
       \/ /\ cap' = "released"
          /\ exc' = "Could not open VideoWriter for raw output"
          /\ pc' = "raised"
          /\ out' = out
    /\ UNCHANGED <<out_csv, csvfile, csv_rows, video_len, raw, ffmpeg_rc,
                   result>>
    /\ UNCHANGED job_vars
    /\ UNCHANGED frame_vars

\* Lines 96-145: one iteration of the loop on a frame whose masks gave the
\* centroid lists pp and gp.
FrameStep(pp, gp) ==
    LET n  == frame_idx + 1
        p  == SortedByY(pp)
        g  == SortedByY(gp)
        pv == Continuity(Oriented(pp), prev_pink_vec)
        gv == Continuity(Oriented(gp), prev_green_vec)
        a  == angle_between(pv, gv)
    IN  /\ frame_idx' = n
        /\ pink_pts' = pp
        /\ green_pts' = gp
        /\ IF BothPairs(pp, gp)
           THEN /\ prev_pink_vec' = pv
                /\ prev_green_vec' = gv
                /\ pink_vec' = pv
                /\ green_vec' = gv
                /\ ang' = a
                /\ angle_display' = Formatted(a)
                /\ frames_with_angle' = frames_with_angle + 1
                /\ lines' = draw_lines(p, g)
                /\ csv_rows' = writerow(csv_rows, <<n, a>>)
           ELSE /\ prev_pink_vec' = keep_prev(prev_pink_vec)
                /\ prev_green_vec' = keep_prev(prev_green_vec)
                /\ pink_vec' = None
                /\ green_vec' = None
                /\ ang' = None
                /\ angle_display' = NA
                /\ frames_with_angle' = frames_with_angle
                /\ lines' = <<>>
                /\ csv_rows' = csv_rows
        /\ raw' = out_write(raw, n)
        /\ same_input' = (frame_idx >= 1 /\ pp = pink_pts /\ gp = green_pts)

\* Lines 91-145: cap.read() returns a frame and the frame is processed.
ProcessFrame ==
    /\ pc = "loop"
    /\ frame_idx < video_len
    /\ \E pp \in CentroidLists, gp \in CentroidLists : FrameStep(pp, gp)
    /\ UNCHANGED <<pc, out_csv, csvfile, cap, video_len, out, ffmpeg_rc, exc,
                   result>>
    /\ UNCHANGED job_vars

\* Lines 92-94 and 147-150: cap.read() reports the end of the source; the
\* streams are released and the CSV file is closed.
EndOfStream ==
    /\ pc = "loop"
    /\ frame_idx = video_len
    /\ cap' = "released"
    /\ out' = "released"
    /\ csvfile' = IF csvfile = "open" THEN "closed" ELSE csvfile
    /\ pc' = "transcode"
    /\ UNCHANGED <<out_csv, csv_rows, video_len, raw, ffmpeg_rc, exc, result>>
    /\ UNCHANGED job_vars
    /\ UNCHANGED frame_vars

Summary == <<frame_idx, frames_with_angle, "processed.mp4", out_csv>>

Transcode_Unchecked ==
    /\ pc = "transcode"
    /\ \E rc \in {0, 1} : ffmpeg_rc' = rc
    /\ pc' = "returned"
    /\ result' = Summary
    /\ exc' = exc
    /\ UNCHANGED <<out_csv, csvfile, csv_rows, cap, video_len, out, raw>>
    /\ UNCHANGED job_vars
    /\ UNCHANGED frame_vars

\* Lines 152-175: ffmpeg runs with check=True; a non-zero return code raises
\* CalledProcessError, otherwise the summary is returned.
Transcode ==
    /\ pc = "transcode"
    /\ \E rc \in {0, 1} :
          /\ ffmpeg_rc' = rc
          /\ IF rc = 0
             THEN pc' = "returned" /\ result' = Summary /\ exc' = exc
             ELSE pc' = "raised" /\ exc' = "CalledProcessError"
                  /\ result' = result
    /\ UNCHANGED <<out_csv, csvfile, csv_rows, cap, video_len, out, raw>>
    /\ UNCHANGED job_vars
    /\ UNCHANGED frame_vars

\* upload, lines 69-79: the outcome of process_video is written to meta.json.
UploadFinish ==
    /\ upc = "processing"
    /\ pc \in {"returned", "raised"}
    /\ upc' = "responded"
    /\ meta' = IF pc = "returned"
               THEN [meta EXCEPT !.status = "done",
                                 !.processed_path = "processed.mp4",
                                 !.csv_path = "angles.csv"]
               ELSE [meta EXCEPT !.status = "failed", !.error = exc]
    /\ UNCHANGED <<caller, pc, out_csv, csvfile, csv_rows, cap, video_len,
                   out, raw, ffmpeg_rc, exc, result>>
    /\ UNCHANGED frame_vars

Next ==
    \/ UploadReject
    \/ UploadAccept
    \/ DirectCall
    \/ OpenInput
    \/ OpenWriter
    \/ ProcessFrame
    \/ EndOfStream
    \/ Transcode
    \/ UploadFinish

Spec == Init /\ [][Next]_vars

----------------------------------------------------------------------------
\* Vocabulary of the properties.

\* A frame has been read and processed in the step.
FrameProcessed == frame_idx' = frame_idx + 1

\* Data rows of the CSV file, the header not counted.
DataRows == IF csv_rows = <<>> THEN 0 ELSE Len(csv_rows) - 1

\* Some data row of the CSV file carries frame number n.
HasRow(n) == \E i \in 2..Len(csv_rows) : csv_rows[i][1] = n

\* Some data row of the CSV file holds NaN.
HasNaNRow == \E i \in 2..Len(csv_rows) : csv_rows[i][2] = NaN

\* Both centroids of the colour are at the same pixel.
Degenerate(pts) == Len(pts) = 2 /\ pts[1] = pts[2]

\* The frame last read had a marker pair of both colours.
Measured == frame_idx >= 1 /\ Len(pink_pts) = 2 /\ Len(green_pts) = 2

\* The segment between the two centroids of a colour, upper one first.
Segment(pts) == LET s == SortedByY(pts) IN <<s[1], s[2]>>

Drawn(seg) == \E i \in 1..Len(lines) : lines[i] = seg

----------------------------------------------------------------------------
\* C1 (as stated): whenever process_video returns, the returned
\* frames_with_angle equals the number of data rows written to the CSV,
\* whatever the arguments.  Fails when no CSV path is given: frames are
\* counted and no row is written.
C1_CountEqualsRowsAlways ==
    pc = "returned" => result[2] = DataRows

\* C1 (amended): whenever process_video returns from a call that was given a
\* CSV path, the returned frames_with_angle equals the number of data rows
\* (header excluded) written to that CSV.
C1_CountEqualsRowsWithCsv ==
    (pc = "returned" /\ out_csv # "") => result[2] = Len(csv_rows) - 1

C1_Witness ==
    /\ pc = "returned" /\ out_csv # ""
    /\ result[1] = 3 /\ result[2] = 2
    /\ HasNaNRow

\* C2: a frame in which the pink or the green centroid count is not 2
\* produces no direction vector and no angle, shows "N/A", writes no CSV row
\* and does not increment frames_with_angle.
C2_NoPairNoAngle ==
    [][ (FrameProcessed /\ (Len(pink_pts') # 2 \/ Len(green_pts') # 2))
        => /\ pink_vec' = None
           /\ green_vec' = None
           /\ ang' = None
           /\ angle_display' = NA
           /\ csv_rows' = csv_rows
           /\ frames_with_angle' = frames_with_angle ]_vars

C2_Witness ==
    /\ frame_idx = 2 /\ out_csv # ""
    /\ Len(pink_pts) = 2 /\ Len(green_pts) = 3
    /\ angle_display = NA
    /\ frames_with_angle = 1

\* C3: a colour whose two centroids are at the same pixel gives no
\* measurement: the frame has no direction vector and shows "N/A", no CSV row
\* holds NaN, the frame has no row, and a zero vector is never stored as a
\* previous vector.
C3_DegenerateIsNoMeasurement ==
    /\ (frame_idx >= 1 /\ (Degenerate(pink_pts) \/ Degenerate(green_pts)))
          => /\ pink_vec = None /\ green_vec = None
             /\ angle_display = NA
             /\ ~HasRow(frame_idx)
    /\ ~HasNaNRow
    /\ prev_pink_vec # <<0, 0>>
    /\ prev_green_vec # <<0, 0>>

\* C4: when the transcode fails, process_video raises and returns nothing,
\* and the job that called it is never "done" nor given a processed_path; it
\* ends "failed" with the error recorded.
C4_TranscodeFailurePropagates ==
    ffmpeg_rc > 0
       => /\ pc = "raised"
          /\ result = None
          /\ meta.status # "done"
          /\ meta.processed_path = ""
          /\ upc = "responded"
                => meta.status = "failed" /\ meta.error = "CalledProcessError"

C4_Witness ==
    /\ ffmpeg_rc > 0
    /\ upc = "responded"
    /\ frame_idx = 2 /\ frames_with_angle = 1

\* C5: when process_video has exited, by return or by raise, none of the
\* input stream, the raw writer and the CSV file is still open.
C5_AllClosedOnExit ==
    pc \in {"returned", "raised"}
       => cap # "open" /\ out # "open" /\ csvfile # "open"

\* C6: once the raw writer is open, every frame read has been written to the
\* raw output exactly once and in source order; the loop is left only when
\* the source is exhausted; the returned frames count is the number of
\* frames written.
C6_EveryFrameWrittenInOrder ==
    /\ out # "unopened"
          => /\ Len(raw) = frame_idx
             /\ \A i \in 1..Len(raw) : raw[i] = i
    /\ out = "released" => frame_idx = video_len
    /\ pc = "returned" => result[1] = Len(raw) /\ Len(raw) = video_len

C6_Witness ==
    /\ pc = "returned"
    /\ Len(raw) = 3
    /\ frames_with_angle = 1
    /\ Len(green_pts) = 0
    /\ HasNaNRow

\* C7 (as stated): in every frame a line is drawn for each colour that has
\* exactly two centroids, whatever the other colour has.  Fails on a frame
\* with one pink blob and two green blobs: no line is drawn.
C7_LinePerPair ==
    frame_idx >= 1
       => /\ Len(pink_pts) = 2 => Drawn(Segment(pink_pts))
          /\ Len(green_pts) = 2 => Drawn(Segment(green_pts))

\* C7 (amended): lines are drawn only in a frame where both colours have
\* exactly two centroids, and then one for each colour; in any other frame,
\* such as one pink blob with two green blobs, no line is drawn and no CSV
\* row is written.
C7_LinesOnlyWhenBothPairs ==
    frame_idx >= 1
       => IF Len(pink_pts) = 2 /\ Len(green_pts) = 2
          THEN lines = <<Segment(pink_pts), Segment(green_pts)>>
          ELSE lines = <<>> /\ ~HasRow(frame_idx)

C7_Witness ==
    /\ frame_idx = 2 /\ out_csv # ""
    /\ Len(pink_pts) = 1 /\ Len(green_pts) = 2
    /\ green_pts[1] # green_pts[2]
    /\ lines = <<>>
    /\ DataRows = 1

\* C8 (as stated): for a marker pair with distinct centroids, p2 - p1 forced
\* downward then leftward has y >= 0, and x <= 0 when y = 0.  Fails for a
\* pair one above the other: the leftward step negates it to y < 0.
C8_DownwardAfterOrientation ==
    \A pts \in {pink_pts, green_pts} :
        (Measured /\ pts[1] # pts[2])
           => LET v == Oriented(pts)
              IN  v[2] >= 0 /\ (v[2] = 0 => v[1] <= 0)

\* C8 (amended): for a marker pair with distinct centroids, p2 - p1 forced
\* downward then leftward has x <= 0, and y <= 0 when x = 0.
C8_LeftwardAfterOrientation ==
    \A pts \in {pink_pts, green_pts} :
        (Measured /\ pts[1] # pts[2])
           => LET v == Oriented(pts)
              IN  v[1] <= 0 /\ (v[1] = 0 => v[2] <= 0)

C8_Witness ==
    /\ Measured
    /\ pink_pts = <<A, C>> /\ Oriented(pink_pts) = <<0, 0 - 1>>
    /\ green_pts = <<C, B>> /\ Oriented(green_pts) = <<0 - 1, 1>>
    /\ frame_idx = 1 /\ pink_vec = <<0, 0 - 1>>

\* C9 (as stated): the previous vector is kept per colour: after a frame in
\* which the colour has exactly two centroids it is the vector of that
\* colour in that frame, whatever the other colour has; after any other
\* frame it is unchanged.  Fails when the other colour has no pair: nothing
\* is stored.
C9_PerColourTracking ==
    [][ FrameProcessed
        => /\ Len(pink_pts') = 2
                => prev_pink_vec' = Continuity(Oriented(pink_pts'), prev_pink_vec)
           /\ Len(pink_pts') # 2 => prev_pink_vec' = prev_pink_vec
           /\ Len(green_pts') = 2
                => prev_green_vec' = Continuity(Oriented(green_pts'), prev_green_vec)
           /\ Len(green_pts') # 2 => prev_green_vec' = prev_green_vec ]_vars

\* C9 (amended): the previous vectors are absent before the first frame;
\* after a frame in which both colours have exactly two centroids each is
\* the vector computed for its colour in that frame; after any other frame
\* both are unchanged; a previous vector is never reset to absent.
C9_JointTracking ==
    [][ /\ frame_idx = 0 => prev_pink_vec = None /\ prev_green_vec = None
        /\ FrameProcessed
             => IF Len(pink_pts') = 2 /\ Len(green_pts') = 2
                THEN /\ pink_vec' # None /\ prev_pink_vec' = pink_vec'
                     /\ green_vec' # None /\ prev_green_vec' = green_vec'
                ELSE /\ prev_pink_vec' = prev_pink_vec
                     /\ prev_green_vec' = prev_green_vec
        /\ prev_pink_vec # None => prev_pink_vec' # None
        /\ prev_green_vec # None => prev_green_vec' # None ]_vars

C9_Witness ==
    /\ frame_idx = 2
    /\ Len(pink_pts) = 2 /\ Len(green_pts) = 1
    /\ pink_pts[1] # pink_pts[2]
    /\ prev_pink_vec # None
    /\ Dot(prev_pink_vec, Oriented(pink_pts)) = 0
    /\ pink_vec = None

\* C10: when two consecutive frames are both measured and a colour has the
\* same centroid list in both, its direction vector is the same in both; when
\* both colours repeat, the angle is the same too.
C10_RepeatedPairSameVector ==
    [][ (FrameProcessed /\ pink_vec # None /\ pink_vec' # None)
        => /\ pink_pts' = pink_pts => pink_vec' = pink_vec
           /\ green_pts' = green_pts => green_vec' = green_vec
           /\ (pink_pts' = pink_pts /\ green_pts' = green_pts)
                => ang' = ang ]_vars

C10_Witness ==
    /\ frame_idx = 3
    /\ same_input
    /\ Measured
    /\ pink_vec # <<0, 0>>
    /\ pink_vec = Neg(Oriented(pink_pts))
    /\ green_vec = Oriented(green_pts)
    /\ green_vec # <<0, 0>>

====
